---- MODULE Spec2Model ----
(***************************************************************************)
(* Model of the streaming response decoder of the OpenRouter provider      *)
(* (crates/g3-providers/src/openrouter.rs): the producer task              *)
(* parse_streaming_response, the bounded mpsc channel created by stream()  *)
(* and the consumer holding the receiving end.                             *)
(*                                                                         *)
(* Encoding of the wire.  The byte stream is a sequence of tokens, each    *)
(* standing for a fixed run of bytes; the transport cuts the stream into   *)
(* fragments at token boundaries.                                          *)
(*   "data:" " "      the bytes of the SSE prefix "data: "                 *)
(*   "\n" "\r"        newline, carriage return (white space for trim())    *)
(*   "[DONE]"         the completion marker                                *)
(*   "{" d "}"        a JSON document; d names the text between the braces *)
(*                    and DocValue(d) is the JSON value that text denotes  *)
(*   "C3" "A9"        the two bytes of the UTF-8 encoding of U+00E9        *)
(*   "FF"             a byte that occurs in no UTF-8 text                  *)
(*   "event:" "x"     bytes of lines that are not data lines               *)
(* Option<T> is a sequence of length 0 (None) or 1 (Some).                 *)
(***************************************************************************)
EXTENDS Integers, Sequences, FiniteSets, TLC

\* ------------------------------------------------------------------ bounds

\* longest fragment (in tokens) the transport hands over in one read
MaxFragLen == 3
\* most lines the server writes in one response
MaxLines == 2
\* most choices the server puts in one event
ManyChoices == 51

\* capacity of the channel between producer and consumer
ChannelCapacity == 100

\* ------------------------------------------------------------------ helpers

None == <<>>

Some(x) == <<x>>

Min(a, b) == IF a < b THEN a ELSE b

Last(s) == s[Len(s)]

\* Option of a JSON object member: serde maps a missing Option field to None
Opt(obj, key) == IF key \in DOMAIN obj THEN Some(obj[key]) ELSE None

\* ------------------------------------------------------------------ JSON

\* The JSON documents of the model, by the token naming the text between
\* their braces. A JSON object is a record holding exactly the members the
\* text has.
Usage1 == [prompt_tokens |-> 5, completion_tokens |-> 5, total_tokens |-> 10]

Usage2 == [prompt_tokens |-> 7, completion_tokens |-> 7, total_tokens |-> 14]

Usage3 == [prompt_tokens |-> 10, completion_tokens |-> 5, total_tokens |-> 15]

DocValue(d) ==
    CASE d = "hel" -> [choices |-> <<[delta |-> [content |-> "Hel"]]>>]
      [] d = "lo" -> [choices |-> <<[delta |-> [content |-> "lo"]]>>]
      [] d = "e" -> [choices |-> <<[delta |-> [content |-> "e-acute"]]>>]
      [] d = "e0" -> [choices |-> <<[delta |-> [content |-> ""]]>>]
      [] d = "obj" -> <<>>
      [] d = "two" ->
            [choices |-> <<
                [delta |-> [content |-> "A",
                            tool_calls |-> <<
                                [index |-> 0, id |-> "call_1",
                                 function |-> [name |-> "get_weather",
                                               arguments |-> <<"{">>]] >>]],
                [delta |-> [content |-> "B"]] >>,
             usage |-> Usage1]
      [] d = "t0" ->
            [choices |-> <<[delta |-> [tool_calls |-> <<
                [index |-> 0, id |-> "call_1",
                 function |-> [name |-> "get_weather",
                               arguments |-> <<"{", "K">>]] >>]]>>]
      [] d = "t0b" ->
            [choices |-> <<[delta |-> [tool_calls |-> <<
                [index |-> 0, function |-> [arguments |-> <<"V", "}">>]] >>]]>>]
      [] d = "t1" ->
            [choices |-> <<[delta |-> [tool_calls |-> <<
                [index |-> 1, id |-> "call_2",
                 function |-> [name |-> "search",
                               arguments |-> <<"{", "}">>]] >>]]>>]
      [] d = "t10" ->
            [choices |-> <<[delta |-> [tool_calls |-> <<
                [index |-> 1, id |-> "call_2",
                 function |-> [name |-> "search", arguments |-> <<"{", "}">>]],
                [index |-> 0, id |-> "call_1",
                 function |-> [name |-> "get_weather",
                               arguments |-> <<"{", "K", "V", "}">>]] >>]]>>]
      [] d = "t2n" ->
            [choices |-> <<[delta |-> [tool_calls |-> <<
                [index |-> 2, function |-> [name |-> "lookup"]] >>]]>>]
      [] d = "t1i" ->
            [choices |-> <<[delta |-> [tool_calls |-> <<
                [index |-> 1, id |-> "call_3"] >>]]>>]
      [] d = "t1e" ->
            [choices |-> <<[delta |-> [tool_calls |-> <<
                [index |-> 1, id |-> "call_5",
                 function |-> [name |-> "noop"]] >>]]>>]
      [] d = "noidx" ->
            [choices |-> <<[delta |-> [tool_calls |-> <<
                [id |-> "call_9",
                 function |-> [name |-> "stray", arguments |-> <<"{", "}">>]],
                [index |-> 0, function |-> [arguments |-> <<"x">>]] >>]]>>]
      [] d = "nix" ->
            [choices |-> <<[delta |-> [content |-> "D", tool_calls |-> <<
                [id |-> "call_9",
                 function |-> [name |-> "stray", arguments |-> <<"x">>]],
                [index |-> 0, id |-> "call_1",
                 function |-> [name |-> "get_weather",
                               arguments |-> <<"{", "}">>]] >>]]>>,
             usage |-> Usage2]
      [] d = "neg" ->
            [choices |-> <<[delta |-> [content |-> "N", tool_calls |-> <<
                [index |-> -1, id |-> "call_n"] >>]]>>]
      [] d = "u1" -> [choices |-> <<>>, usage |-> Usage1]
      [] d = "u2" -> [choices |-> <<>>, usage |-> Usage2]
      [] d = "cu" -> [choices |-> <<[delta |-> [content |-> "C"]]>>,
                      usage |-> Usage2]
      [] d = "nodelta" -> [choices |-> <<[x |-> 0]>>, usage |-> Usage3]
      [] d = "noc" -> [choices |-> << <<>> >>, usage |-> Usage3]
      [] d = "many" ->
            [choices |-> [i \in 1..ManyChoices |-> [delta |-> [content |-> "m"]]]]
      [] d = "nochoices" -> [usage |-> Usage3]
      [] d = "badusage" -> [choices |-> <<[delta |-> [content |-> "U"]]>>,
                            usage |-> [prompt_tokens |-> 1]]

Docs == {"hel", "lo", "noc", "many", "nix", "e", "e0", "obj", "two", "t0", "t0b", "t1", "t10", "t2n", "t1i", "t1e", "noidx",
         "neg", "u1", "u2", "cu", "nodelta", "nochoices", "badusage"}

\* The text of a document. The text of "e" holds a two-byte character; without
\* the two bytes it is the text of "e0", a document whose content is the empty
\* string. The text of "obj" is the empty object {}.
TextOf(d) == CASE d = "e" -> <<"{", "e1", "C3", "A9", "e2", "}">>
               [] d = "e0" -> <<"{", "e1", "e2", "}">>
               [] d = "obj" -> <<"{", "}">>
               [] OTHER -> <<"{", d, "}">>

IsWhitespace(t) == t \in {" ", "\r", "\t"}

\* str::trim: white space removed at both ends
RECURSIVE TrimStart(_)
TrimStart(s) == IF s # <<>> /\ IsWhitespace(Head(s)) THEN TrimStart(Tail(s)) ELSE s

RECURSIVE TrimEnd(_)
TrimEnd(s) == IF s # <<>> /\ IsWhitespace(Last(s))
              THEN TrimEnd(SubSeq(s, 1, Len(s) - 1)) ELSE s

Trim(s) == TrimEnd(TrimStart(s))

\* serde_json's reading of a text as a JSON value (white space around the
\* value is allowed): None on a syntax error
ParseJsonText(s) ==
    LET t == Trim(s) IN
    IF \E d \in Docs : TextOf(d) = t
    THEN Some(DocValue(CHOOSE d \in Docs : TextOf(d) = t))
    ELSE None

\* #[derive(Deserialize)] OpenRouterUsage: three required u32 members
UsageOk(u) ==
    /\ {"prompt_tokens", "completion_tokens", "total_tokens"} \subseteq DOMAIN u
    /\ \A k \in {"prompt_tokens", "completion_tokens", "total_tokens"} : u[k] \in Nat

OpenRouterUsage(u) ==
    [prompt_tokens |-> u.prompt_tokens,
     completion_tokens |-> u.completion_tokens,
     total_tokens |-> u.total_tokens]

\* OpenRouterDeltaFunction: name and arguments are optional
OpenRouterDeltaFunction(f) ==
    [name |-> Opt(f, "name"), arguments |-> Opt(f, "arguments")]

\* OpenRouterDeltaToolCall: index (usize), id and function are optional
DeltaToolCallOk(tc) == "index" \in DOMAIN tc => tc.index \in Nat

OpenRouterDeltaToolCall(tc) ==
    [index |-> Opt(tc, "index"),
     id |-> Opt(tc, "id"),
     function |-> IF "function" \in DOMAIN tc
                  THEN Some(OpenRouterDeltaFunction(tc.function)) ELSE None]

\* OpenRouterDelta: content and tool_calls are optional
DeltaOk(dl) ==
    "tool_calls" \in DOMAIN dl =>
        \A i \in 1..Len(dl.tool_calls) : DeltaToolCallOk(dl.tool_calls[i])

OpenRouterDelta(dl) ==
    [content |-> Opt(dl, "content"),
     tool_calls |-> IF "tool_calls" \in DOMAIN dl
                    THEN Some([i \in 1..Len(dl.tool_calls) |->
                                 OpenRouterDeltaToolCall(dl.tool_calls[i])])
                    ELSE None]

\* OpenRouterStreamChoice: delta is required
StreamChoiceOk(c) == "delta" \in DOMAIN c /\ DeltaOk(c.delta)

OpenRouterStreamChoice(c) == [delta |-> OpenRouterDelta(c.delta)]

\* OpenRouterStreamChunk: choices is required, usage is optional
StreamChunkOk(v) ==
    /\ "choices" \in DOMAIN v
    /\ \A i \in 1..Len(v.choices) : StreamChoiceOk(v.choices[i])
    /\ "usage" \in DOMAIN v => UsageOk(v.usage)

OpenRouterStreamChunk(v) ==
    [choices |-> [i \in 1..Len(v.choices) |-> OpenRouterStreamChoice(v.choices[i])],
     usage |-> IF "usage" \in DOMAIN v THEN Some(OpenRouterUsage(v.usage)) ELSE None]

\* serde_json::from_str::<OpenRouterStreamChunk>(data): None on any error.
\* The text is read once, into v.
FromStr(data) ==
    CHOOSE r \in {IF v = None THEN None
                  ELSE IF StreamChunkOk(v[1]) THEN Some(OpenRouterStreamChunk(v[1]))
                  ELSE None : v \in {ParseJsonText(data)}} : TRUE

\* serde_json::from_str::<Value>(arguments) of a tool call's argument text,
\* whose tokens are "{", "K" (a member's key and colon), "V" (its value),
\* "}" and "x" (bytes of no JSON text). None on a syntax error.
ParseArguments(text) ==
    IF text = <<"{", "}">> THEN Some([t |-> "object", v |-> {}])
    ELSE IF text = <<"{", "K", "V", "}">>
         THEN Some([t |-> "object", v |-> {<<"location", "Tokyo">>}])
    ELSE None

JsonNull == [t |-> "null", v |-> {}]

\* ------------------------------------------------------------------ framing

\* std::str::from_utf8(&chunk).is_ok(): every lead byte C3 is followed, in the
\* same fragment, by its continuation byte A9; no other A9; no FF
ValidUtf8(chunk) ==
    \A i \in 1..Len(chunk) :
        /\ chunk[i] # "FF"
        /\ chunk[i] = "C3" => (i < Len(chunk) /\ chunk[i + 1] = "A9")
        /\ chunk[i] = "A9" => (i > 1 /\ chunk[i - 1] = "C3")

\* buffer.find('\n'): the position of the first newline, 0 for None
FindNewline(buf) ==
    IF \E i \in 1..Len(buf) : buf[i] = "\n"
    THEN CHOOSE i \in 1..Len(buf) : buf[i] = "\n" /\ \A j \in 1..(i - 1) : buf[j] # "\n"
    ELSE 0

\* buffer[..line_end].trim()
LineOf(buf, line_end) == Trim(SubSeq(buf, 1, line_end - 1))

\* buffer.drain(..line_end + 1)
Drain(buf, line_end) == SubSeq(buf, line_end + 1, Len(buf))

\* line.strip_prefix("data: ")
StripPrefix(line) ==
    IF Len(line) >= 2 /\ line[1] = "data:" /\ line[2] = " "
    THEN Some(SubSeq(line, 3, Len(line)))
    ELSE None

\* What the line loop does with one line: "empty" and "other" lines are passed
\* over, "done" is the completion marker, "skip" a payload that does not
\* parse, "event" a decoded OpenRouterStreamChunk
Classify(line) ==
    IF line = <<>> THEN [kind |-> "empty", event |-> None]
    ELSE LET data == StripPrefix(line) IN
         IF data = None THEN [kind |-> "other", event |-> None]
         ELSE IF data[1] = <<"[DONE]">> THEN [kind |-> "done", event |-> None]
         ELSE CHOOSE c \in {IF parsed = None THEN [kind |-> "skip", event |-> None]
                            ELSE [kind |-> "event", event |-> parsed] :
                            parsed \in {FromStr(data[1])}} : TRUE

\* ------------------------------------------------------------------ tool calls

\* OpenRouterStreamingToolCall::default()
DefaultToolCall == [id |-> None, name |-> None, arguments |-> <<>>]

\* while current_tool_calls.len() <= index { push(default) }
RECURSIVE Extend(_, _)
Extend(tcs, index) ==
    IF Len(tcs) <= index THEN Extend(Append(tcs, DefaultToolCall), index) ELSE tcs

\* mutant: a delta goes to the newest fragment, whatever its index
MergeDeltaInArrivalOrder(tcs, d) ==
    IF d.index = None THEN tcs
    ELSE LET ext == IF d.id # None \/ tcs = <<>>
                    THEN Append(tcs, DefaultToolCall) ELSE tcs
             old == Last(ext)
             withId == IF d.id # None THEN [old EXCEPT !.id = d.id] ELSE old
             withName ==
                 IF d.function # None /\ d.function[1].name # None
                 THEN [withId EXCEPT !.name = d.function[1].name] ELSE withId
             withArgs ==
                 IF d.function # None /\ d.function[1].arguments # None
                 THEN [withName EXCEPT
                         !.arguments = withName.arguments \o d.function[1].arguments[1]]
                 ELSE withName
         IN [ext EXCEPT ![Len(ext)] = withArgs]

\* mutant: a delta without an index is taken to be for position 0
MergeDeltaDefaultingIndex(tcs, d) ==
    LET index == IF d.index = None THEN 0 ELSE d.index[1]
        ext == Extend(tcs, index)
        old == ext[index + 1]
        withId == IF d.id # None THEN [old EXCEPT !.id = d.id] ELSE old
        withName ==
            IF d.function # None /\ d.function[1].name # None
            THEN [withId EXCEPT !.name = d.function[1].name] ELSE withId
        withArgs ==
            IF d.function # None /\ d.function[1].arguments # None
            THEN [withName EXCEPT
                    !.arguments = withName.arguments \o d.function[1].arguments[1]]
            ELSE withName
    IN [ext EXCEPT ![index + 1] = withArgs]

\* mutant: a position past the end gets one new fragment, without the padding
MergeDeltaWithoutPadding(tcs, d) ==
    IF d.index = None THEN tcs
    ELSE LET index == d.index[1]
             ext == IF Len(tcs) <= index THEN Append(tcs, DefaultToolCall) ELSE tcs
             slot == Min(index + 1, Len(ext))
             old == ext[slot]
             withId == IF d.id # None THEN [old EXCEPT !.id = d.id] ELSE old
             withName ==
                 IF d.function # None /\ d.function[1].name # None
                 THEN [withId EXCEPT !.name = d.function[1].name] ELSE withId
             withArgs ==
                 IF d.function # None /\ d.function[1].arguments # None
                 THEN [withName EXCEPT
                         !.arguments = withName.arguments \o d.function[1].arguments[1]]
                 ELSE withName
         IN [ext EXCEPT ![slot] = withArgs]

\* mutant: the argument text of a delta goes in front of the text buffered
MergeDeltaPrependingArguments(tcs, d) ==
    IF d.index = None THEN tcs
    ELSE LET index == d.index[1]
             ext == Extend(tcs, index)
             old == ext[index + 1]
             withId == IF d.id # None THEN [old EXCEPT !.id = d.id] ELSE old
             withName ==
                 IF d.function # None /\ d.function[1].name # None
                 THEN [withId EXCEPT !.name = d.function[1].name] ELSE withId
             withArgs ==
                 IF d.function # None /\ d.function[1].arguments # None
                 THEN [withName EXCEPT
                         !.arguments = d.function[1].arguments[1] \o withName.arguments]
                 ELSE withName
         IN [ext EXCEPT ![index + 1] = withArgs]

\* mutant: the argument text of a delta replaces the text buffered so far
MergeDeltaOverwritingArguments(tcs, d) ==
    IF d.index = None THEN tcs
    ELSE LET index == d.index[1]
             ext == Extend(tcs, index)
             old == ext[index + 1]
             withId == IF d.id # None THEN [old EXCEPT !.id = d.id] ELSE old
             withName ==
                 IF d.function # None /\ d.function[1].name # None
                 THEN [withId EXCEPT !.name = d.function[1].name] ELSE withId
             withArgs ==
                 IF d.function # None /\ d.function[1].arguments # None
                 THEN [withName EXCEPT !.arguments = d.function[1].arguments[1]]
                 ELSE withName
         IN [ext EXCEPT ![index + 1] = withArgs]

\* the body of `for delta_tool_call in delta_tool_calls` for one delta
MergeDelta(tcs, d) ==
    IF d.index = None THEN tcs
    ELSE LET index == d.index[1]
             ext == Extend(tcs, index)
             old == ext[index + 1]
             withId == IF d.id # None THEN [old EXCEPT !.id = d.id] ELSE old
             withName ==
                 IF d.function # None /\ d.function[1].name # None
                 THEN [withId EXCEPT !.name = d.function[1].name] ELSE withId
             withArgs ==
                 IF d.function # None /\ d.function[1].arguments # None
                 THEN [withName EXCEPT
                         !.arguments = withName.arguments \o d.function[1].arguments[1]]
                 ELSE withName
         IN [ext EXCEPT ![index + 1] = withArgs]

\* `for delta_tool_call in delta_tool_calls`, in order
RECURSIVE MergeDeltas(_, _)
MergeDeltas(tcs, ds) ==
    IF ds = <<>> THEN tcs ELSE MergeDeltas(MergeDelta(tcs, Head(ds)), Tail(ds))

\* `if let Some(delta_tool_calls) = &choice.delta.tool_calls`
MergeChoice(tcs, choice) ==
    IF choice.delta.tool_calls = None THEN tcs
    ELSE MergeDeltas(tcs, choice.delta.tool_calls[1])

\* mutant: a fragment with an id but no name becomes a tool call all the same
ToToolCallWithoutName(tc) ==
    IF tc.id = None THEN None
    ELSE LET parsed == ParseArguments(tc.arguments)
             args == IF parsed = None THEN JsonNull ELSE parsed[1]
         IN Some([id |-> tc.id[1],
                  tool |-> IF tc.name = None THEN "" ELSE tc.name[1],
                  args |-> args])

\* mutant: a fragment whose arguments do not parse yields no tool call
ToToolCallDroppingBadArguments(tc) ==
    IF tc.id = None THEN None
    ELSE IF tc.name = None THEN None
    ELSE LET parsed == ParseArguments(tc.arguments) IN
         IF parsed = None THEN None
         ELSE Some([id |-> tc.id[1], tool |-> tc.name[1], args |-> parsed[1]])

\* OpenRouterStreamingToolCall::to_tool_call
ToToolCall(tc) ==
    IF tc.id = None THEN None
    ELSE IF tc.name = None THEN None
    ELSE LET parsed == ParseArguments(tc.arguments)
             args == IF parsed = None THEN JsonNull ELSE parsed[1]
         IN Some([id |-> tc.id[1], tool |-> tc.name[1], args |-> args])

\* iter().filter_map(|tc| tc.to_tool_call()).collect()
RECURSIVE FilterMapToToolCall(_)
FilterMapToToolCall(tcs) ==
    IF tcs = <<>> THEN <<>>
    ELSE ToToolCall(Head(tcs)) \o FilterMapToToolCall(Tail(tcs))

\* ------------------------------------------------------------------ chunks

\* Result<CompletionChunk>
Ok(chunk) == [tag |-> "Ok", chunk |-> Some(chunk)]

Err == [tag |-> "Err", chunk |-> None]

CompletionChunk(content, finished, tool_calls, usage) ==
    [content |-> content, finished |-> finished,
     tool_calls |-> tool_calls, usage |-> usage]

\* mutant: the intermediate chunk is built without the content
ContentChunkEmpty(content) == CompletionChunk("", FALSE, None, None)

\* the intermediate chunk of one content fragment
ContentChunk(content) == CompletionChunk(content, FALSE, None, None)

\* mutant: a list left empty by the filter is reported as absent
DoneFinalChunkOmittingEmpty(tcs, usage) ==
    CompletionChunk("", TRUE,
                    IF FilterMapToToolCall(tcs) = <<>> THEN None
                    ELSE Some(FilterMapToToolCall(tcs)),
                    usage)

\* the final chunk built when the completion marker is read
DoneFinalChunk(tcs, usage) ==
    CompletionChunk("", TRUE,
                    IF tcs = <<>> THEN None ELSE Some(FilterMapToToolCall(tcs)),
                    usage)

\* mutant: the end-of-stream chunk is not marked finished
EofFinalChunkUnfinished(tcs, usage) ==
    CompletionChunk("", FALSE,
                    IF Len(tcs) = 0 THEN None ELSE Some(FilterMapToToolCall(tcs)),
                    usage)

\* mutant: the end-of-stream chunk leaves the usage out
EofFinalChunkNoUsage(tcs, usage) ==
    CompletionChunk("", TRUE,
                    IF Len(tcs) = 0 THEN None ELSE Some(FilterMapToToolCall(tcs)),
                    None)

\* the final chunk built when the transport has ended
EofFinalChunk(tcs, usage) ==
    CompletionChunk("", TRUE,
                    IF Len(tcs) = 0 THEN None ELSE Some(FilterMapToToolCall(tcs)),
                    usage)

\* ------------------------------------------------------------------ inputs

DataLine(d) == <<"data:", " ">> \o TextOf(d) \o <<"\n">>

DoneLine == <<"data:", " ", "[DONE]", "\n">>

\* the lines a response is made of
Lines ==
    {DataLine(d) : d \in {"hel", "two", "e"}}
    \cup {DoneLine,
          <<"\r", "\n">>,
          <<"event:", "x", "\n">>,
          <<"data:", " ", "{", "hel", "\n">>,
          <<"data:", " ", "FF", "\n">>}

\* the responses of at most n lines over the lines of `lib`
RECURSIVE StreamsOver(_, _)
StreamsOver(lib, n) ==
    IF n = 0 THEN {<<>>}
    ELSE LET shorter == StreamsOver(lib, n - 1)
         IN shorter \cup {s \o l : s \in shorter, l \in lib}

\* ------------------------------------------------------------------ state

VARIABLES
    stream,              \* the bytes the server writes, were the connection to last
    pos,                 \* how many of them the transport has handed over
    buffer,              \* parse_streaming_response: buffer
    accumulated_usage,   \* parse_streaming_response: accumulated_usage
    current_tool_calls,  \* parse_streaming_response: current_tool_calls
    chunk_data,          \* the event being handled (Some), or None
    choice_idx,          \* position of `for choice in &chunk_data.choices`
    pc,                  \* where the producer task is
    exit,                \* which return statement ended it
    returned,            \* Some(the Option<Usage> returned), None while running
    queue,               \* items in the channel
    capacity,            \* the channel's capacity
    rx_closed,           \* the consumer has dropped the receiving end
    received,            \* items the consumer has taken, in order
    sends,               \* history: every completed tx.send, [item, ok]
    accepted,            \* history: all text pushed to buffer
    parked               \* a second request in flight (Some), or None

producer == <<buffer, accumulated_usage, current_tool_calls, chunk_data,
              choice_idx, pc, exit, returned, sends, accepted, pos>>

vars == <<stream, pos, buffer, accumulated_usage, current_tool_calls, chunk_data,
          choice_idx, pc, exit, returned, queue, capacity, rx_closed, received,
          sends, accepted, parked>>

\* the state stream() leaves when it has spawned the producer task
InitWith(streams) ==
    /\ stream \in streams
    /\ pos = 0
    /\ buffer = <<>>
    /\ accumulated_usage = None
    /\ current_tool_calls = <<>>
    /\ chunk_data = None
    /\ choice_idx = 0
    /\ pc = "next"
    /\ exit = "running"
    /\ returned = None
    /\ queue = <<>>
    /\ capacity = ChannelCapacity
    /\ rx_closed = FALSE
    /\ received = <<>>
    /\ sends = <<>>
    /\ accepted = <<>>
    /\ parked = None

Init == InitWith(StreamsOver(Lines, MaxLines))

\* ------------------------------------------------------------------ channel

\* mutant: a send waits for room and never notices that the receiver is gone
SendReadyWhileAttached == ~rx_closed /\ Len(queue) < capacity

\* mutant: an unbounded channel, a send always completes
SendReadyUnbounded == TRUE

\* tx.send(item).await can complete: there is room, or the receiver is gone
SendReady == rx_closed \/ Len(queue) < capacity

\* tx.send(item).await completes: Ok when the receiver is attached
Send(item) ==
    /\ SendReady
    /\ sends' = Append(sends, [item |-> item, ok |-> ~rx_closed])
    /\ queue' = IF rx_closed THEN queue ELSE Append(queue, item)

\* mutant: the task returns no usage
ReturnNone(site) ==
    /\ pc' = "done"
    /\ exit' = site
    /\ returned' = Some(None)

\* `return accumulated_usage`
Return(site) ==
    /\ pc' = "done"
    /\ exit' = site
    /\ returned' = Some(accumulated_usage)

\* ------------------------------------------------------------------ producer

\* stream.next().await yields Some(Ok(chunk))
\* mutant: the fragment is appended to the buffer whether it decodes or not
NextOkKeepingInvalid ==
    /\ pc = "next"
    /\ \E n \in 1..Min(MaxFragLen, Len(stream) - pos) :
          LET chunk == SubSeq(stream, pos + 1, pos + n) IN
          /\ pos' = pos + n
          /\ buffer' = buffer \o chunk
          /\ accepted' = accepted \o chunk
          /\ pc' = "lines"
    /\ UNCHANGED <<parked, stream, accumulated_usage, current_tool_calls, chunk_data,
                   choice_idx, exit, returned, queue, capacity, rx_closed,
                   received, sends>>

NextOk ==
    /\ pc = "next"
    /\ \E n \in 1..Min(MaxFragLen, Len(stream) - pos) :
          LET chunk == SubSeq(stream, pos + 1, pos + n) IN
          /\ pos' = pos + n
          /\ IF ValidUtf8(chunk)
             THEN /\ buffer' = buffer \o chunk
                  /\ accepted' = accepted \o chunk
                  /\ pc' = "lines"
             ELSE UNCHANGED <<buffer, accepted, pc>>
    /\ UNCHANGED <<parked, stream, accumulated_usage, current_tool_calls, chunk_data,
                   choice_idx, exit, returned, queue, capacity, rx_closed,
                   received, sends>>

\* stream.next().await yields Some(Err(e))
NextErr ==
    /\ pc = "next"
    /\ pc' = "error"
    /\ UNCHANGED <<parked, stream, pos, buffer, accumulated_usage, current_tool_calls,
                   chunk_data, choice_idx, exit, returned, queue, capacity,
                   rx_closed, received, sends, accepted>>

\* stream.next().await yields None
NextNone ==
    /\ pc = "next"
    /\ pc' = "eof"
    /\ UNCHANGED <<parked, stream, pos, buffer, accumulated_usage, current_tool_calls,
                   chunk_data, choice_idx, exit, returned, queue, capacity,
                   rx_closed, received, sends, accepted>>

\* mutant: after a line that is no event the task goes back to reading
ProcessLineThenRead ==
    /\ pc = "lines"
    /\ \E line_end \in {FindNewline(buffer)} :
       IF line_end = 0
       THEN /\ pc' = "next"
            /\ UNCHANGED <<buffer, chunk_data, choice_idx>>
       ELSE \E line \in {LineOf(buffer, line_end)} : \E c \in {Classify(line)} :
            /\ buffer' = Drain(buffer, line_end)
            /\ pc' = CASE c.kind = "done" -> "sentinel"
                       [] c.kind = "event" -> "choices"
                       [] OTHER -> "next"
            /\ chunk_data' = c.event
            /\ choice_idx' = IF c.kind = "event" THEN 1 ELSE choice_idx
    /\ UNCHANGED <<parked, stream, pos, accumulated_usage, current_tool_calls, exit,
                   returned, queue, capacity, rx_closed, received, sends, accepted>>

\* mutant: text without a newline is taken for a line as it stands
ProcessLineTakingPartial ==
    /\ pc = "lines"
    /\ \E line_end \in {IF FindNewline(buffer) = 0 /\ buffer # <<>>
                        THEN Len(buffer) + 1 ELSE FindNewline(buffer)} :
       IF line_end = 0
       THEN /\ pc' = "next"
            /\ UNCHANGED <<buffer, chunk_data, choice_idx>>
       ELSE \E line \in {LineOf(buffer, line_end)} : \E c \in {Classify(line)} :
            /\ buffer' = Drain(buffer, line_end)
            /\ pc' = CASE c.kind = "done" -> "sentinel"
                       [] c.kind = "event" -> "choices"
                       [] OTHER -> "lines"
            /\ chunk_data' = c.event
            /\ choice_idx' = IF c.kind = "event" THEN 1 ELSE choice_idx
    /\ UNCHANGED <<parked, stream, pos, accumulated_usage, current_tool_calls, exit,
                   returned, queue, capacity, rx_closed, received, sends, accepted>>

\* mutant: a payload that does not parse is treated as a transport failure
ProcessLineFailingOnBadPayload ==
    /\ pc = "lines"
    /\ LET line_end == FindNewline(buffer) IN
       IF line_end = 0
       THEN /\ pc' = "next"
            /\ UNCHANGED <<buffer, chunk_data, choice_idx>>
       ELSE LET c == Classify(LineOf(buffer, line_end)) IN
            /\ buffer' = Drain(buffer, line_end)
            /\ pc' = CASE c.kind = "done" -> "sentinel"
                       [] c.kind = "event" -> "choices"
                       [] c.kind = "skip" -> "error"
                       [] OTHER -> "lines"
            /\ chunk_data' = c.event
            /\ choice_idx' = IF c.kind = "event" THEN 1 ELSE choice_idx
    /\ UNCHANGED <<parked, stream, pos, accumulated_usage, current_tool_calls, exit,
                   returned, queue, capacity, rx_closed, received, sends, accepted>>

\* one turn of `while let Some(line_end) = buffer.find('\n')`
ProcessLine ==
    /\ pc = "lines"
    /\ \E line_end \in {FindNewline(buffer)} :
       IF line_end = 0
       THEN /\ pc' = "next"
            /\ UNCHANGED <<buffer, chunk_data, choice_idx>>
       ELSE \E line \in {LineOf(buffer, line_end)} : \E c \in {Classify(line)} :
            /\ buffer' = Drain(buffer, line_end)
            /\ pc' = CASE c.kind = "done" -> "sentinel"
                       [] c.kind = "event" -> "choices"
                       [] OTHER -> "lines"
            /\ chunk_data' = c.event
            /\ choice_idx' = IF c.kind = "event" THEN 1 ELSE choice_idx
    /\ UNCHANGED <<parked, stream, pos, accumulated_usage, current_tool_calls, exit,
                   returned, queue, capacity, rx_closed, received, sends, accepted>>

\* mutant: after the final chunk the line loop goes on
SendDoneNoReturn ==
    /\ pc = "sentinel"
    /\ Send(Ok(DoneFinalChunk(current_tool_calls, accumulated_usage)))
    /\ pc' = "lines"
    /\ UNCHANGED <<exit, returned>>
    /\ UNCHANGED <<parked, stream, pos, buffer, accumulated_usage, current_tool_calls,
                   chunk_data, choice_idx, capacity, rx_closed, received, accepted>>

\* the completion marker: the final chunk is sent and the task returns
SendDone ==
    /\ pc = "sentinel"
    /\ Send(Ok(DoneFinalChunk(current_tool_calls, accumulated_usage)))
    /\ Return("sentinel")
    /\ UNCHANGED <<parked, stream, pos, buffer, accumulated_usage, current_tool_calls,
                   chunk_data, choice_idx, capacity, rx_closed, received, accepted>>

\* mutant: the result of sending the content chunk is not looked at
HandleChoiceIgnoringSendError ==
    /\ pc = "choices"
    /\ choice_idx <= Len(chunk_data[1].choices)
    /\ LET choice == chunk_data[1].choices[choice_idx] IN
       /\ IF choice.delta.content # None
          THEN Send(Ok(ContentChunk(choice.delta.content[1])))
          ELSE UNCHANGED <<queue, sends>>
       /\ current_tool_calls' = MergeChoice(current_tool_calls, choice)
       /\ choice_idx' = choice_idx + 1
    /\ UNCHANGED <<parked, stream, pos, buffer, accumulated_usage, chunk_data, capacity,
                   rx_closed, received, accepted, pc, exit, returned>>

\* one turn of `for choice in &chunk_data.choices`: the content chunk is sent
\* (the task returns when the receiver is gone), then the tool calls are merged
HandleChoice ==
    /\ pc = "choices"
    /\ choice_idx <= Len(chunk_data[1].choices)
    /\ LET choice == chunk_data[1].choices[choice_idx] IN
       IF choice.delta.content # None
       THEN /\ Send(Ok(ContentChunk(choice.delta.content[1])))
            /\ IF rx_closed
               THEN /\ Return("disconnect")
                    /\ UNCHANGED <<current_tool_calls, choice_idx>>
               ELSE /\ current_tool_calls' = MergeChoice(current_tool_calls, choice)
                    /\ choice_idx' = choice_idx + 1
                    /\ UNCHANGED <<pc, exit, returned>>
       ELSE /\ current_tool_calls' = MergeChoice(current_tool_calls, choice)
            /\ choice_idx' = choice_idx + 1
            /\ UNCHANGED <<pc, exit, returned, queue, sends>>
    /\ UNCHANGED <<parked, stream, pos, buffer, accumulated_usage, chunk_data, capacity,
                   rx_closed, received, accepted>>

\* mutant: a usage snapshot is added to the stored one
HandleUsageSumming ==
    /\ pc = "choices"
    /\ choice_idx > Len(chunk_data[1].choices)
    /\ accumulated_usage' =
          IF chunk_data[1].usage = None THEN accumulated_usage
          ELSE IF accumulated_usage = None THEN chunk_data[1].usage
          ELSE Some([prompt_tokens |-> accumulated_usage[1].prompt_tokens
                                       + chunk_data[1].usage[1].prompt_tokens,
                     completion_tokens |-> accumulated_usage[1].completion_tokens
                                           + chunk_data[1].usage[1].completion_tokens,
                     total_tokens |-> accumulated_usage[1].total_tokens
                                      + chunk_data[1].usage[1].total_tokens])
    /\ chunk_data' = None
    /\ pc' = "lines"
    /\ UNCHANGED <<parked, stream, pos, buffer, current_tool_calls, choice_idx, exit,
                   returned, queue, capacity, rx_closed, received, sends, accepted>>

\* mutant: a usage snapshot is passed on at once in a chunk of its own
HandleUsageEmitting ==
    /\ pc = "choices"
    /\ choice_idx > Len(chunk_data[1].choices)
    /\ accumulated_usage' =
          IF chunk_data[1].usage # None
          THEN Some([prompt_tokens |-> chunk_data[1].usage[1].prompt_tokens,
                     completion_tokens |-> chunk_data[1].usage[1].completion_tokens,
                     total_tokens |-> chunk_data[1].usage[1].total_tokens])
          ELSE accumulated_usage
    /\ IF chunk_data[1].usage # None
       THEN Send(Ok(CompletionChunk("", FALSE, None, chunk_data[1].usage)))
       ELSE UNCHANGED <<queue, sends>>
    /\ chunk_data' = None
    /\ pc' = "lines"
    /\ UNCHANGED <<parked, stream, pos, buffer, current_tool_calls, choice_idx, exit,
                   returned, capacity, rx_closed, received, accepted>>

\* `if let Some(usage) = chunk_data.usage`, after the choices
HandleUsage ==
    /\ pc = "choices"
    /\ choice_idx > Len(chunk_data[1].choices)
    /\ accumulated_usage' =
          IF chunk_data[1].usage # None
          THEN Some([prompt_tokens |-> chunk_data[1].usage[1].prompt_tokens,
                     completion_tokens |-> chunk_data[1].usage[1].completion_tokens,
                     total_tokens |-> chunk_data[1].usage[1].total_tokens])
          ELSE accumulated_usage
    /\ chunk_data' = None
    /\ pc' = "lines"
    /\ UNCHANGED <<parked, stream, pos, buffer, current_tool_calls, choice_idx, exit,
                   returned, queue, capacity, rx_closed, received, sends, accepted>>

\* mutant: a transport failure ends the task without a word to the consumer
SendErrSilent ==
    /\ pc = "error"
    /\ Return("error")
    /\ UNCHANGED <<parked, stream, pos, buffer, accumulated_usage, current_tool_calls,
                   chunk_data, choice_idx, capacity, rx_closed, received, accepted,
                   queue, sends>>

\* mutant: the failure result is sent but the task goes on reading
SendErrNoReturn ==
    /\ pc = "error"
    /\ Send(Err)
    /\ pc' = "next"
    /\ UNCHANGED <<parked, stream, pos, buffer, accumulated_usage, current_tool_calls,
                   chunk_data, choice_idx, capacity, rx_closed, received, accepted,
                   exit, returned>>

\* the transport failed: a failure result is sent and the task returns
SendErr ==
    /\ pc = "error"
    /\ Send(Err)
    /\ Return("error")
    /\ UNCHANGED <<parked, stream, pos, buffer, accumulated_usage, current_tool_calls,
                   chunk_data, choice_idx, capacity, rx_closed, received, accepted>>

\* the transport ended: the final chunk is sent and the task returns
SendEof ==
    /\ pc = "eof"
    /\ Send(Ok(EofFinalChunk(current_tool_calls, accumulated_usage)))
    /\ Return("eof")
    /\ UNCHANGED <<parked, stream, pos, buffer, accumulated_usage, current_tool_calls,
                   chunk_data, choice_idx, capacity, rx_closed, received, accepted>>

\* ------------------------------------------------------------------ consumer

\* the consumer takes the next item of the ReceiverStream
Recv ==
    /\ ~rx_closed
    /\ queue # <<>>
    /\ received' = Append(received, Head(queue))
    /\ queue' = Tail(queue)
    /\ UNCHANGED <<parked, stream, pos, buffer, accumulated_usage, current_tool_calls,
                   chunk_data, choice_idx, pc, exit, returned, capacity,
                   rx_closed, sends, accepted>>

\* the consumer drops the ReceiverStream; what was queued is dropped with it
DropReceiver ==
    /\ ~rx_closed
    /\ rx_closed' = TRUE
    /\ queue' = <<>>
    /\ UNCHANGED <<parked, stream, pos, buffer, accumulated_usage, current_tool_calls,
                   chunk_data, choice_idx, pc, exit, returned, capacity,
                   received, sends, accepted>>

Next ==
    \/ NextOk
    \/ NextErr
    \/ NextNone
    \/ ProcessLine
    \/ SendDone
    \/ HandleChoice
    \/ HandleUsage
    \/ SendErr
    \/ SendEof
    \/ Recv
    \/ DropReceiver

Spec == Init /\ [][Next]_vars

\* the lines of tool-call and usage events
ToolLines ==
    {DataLine(d) : d \in {"t0", "t0b", "t1", "t10", "t2n", "t1i", "t1e", "noidx",
                          "u1", "u2",
                          "two", "nodelta"}}
    \cup {DoneLine}

InitTools == InitWith(StreamsOver(ToolLines, MaxLines))

SpecTools == InitTools /\ [][Next]_vars

\* ------------------------------------------------------------------ properties

\* the items the channel accepted, in the order they were sent
RECURSIVE OkItems(_)
OkItems(h) ==
    IF h = <<>> THEN <<>>
    ELSE (IF Head(h).ok THEN <<Head(h).item>> ELSE <<>>) \o OkItems(Tail(h))

Sent == OkItems(sends)

IsChunk(item) == item.tag = "Ok"

IsFinished(item) == item.tag = "Ok" /\ item.chunk[1].finished

IsFailure(item) == item.tag = "Err"

IsTerminal(item) == IsFinished(item) \/ IsFailure(item)

Count(s, P(_)) == Cardinality({i \in 1..Len(s) : P(s[i])})

\* C1 as stated: every finished run with the consumer attached, whatever the
\* ending, has sent exactly one chunk with finished=true, as the last item.
C1_Original ==
    (pc = "done" /\ ~rx_closed) =>
        /\ Count(Sent, IsFinished) = 1
        /\ IsFinished(Last(Sent))

\* C1 amended: a run that ends at the completion marker or at end-of-stream
\* with the consumer attached has sent exactly one chunk with finished=true,
\* as the last item; no run sends two, or anything after one; a run ended by
\* a transport read error sends none.
C1_FinishedOnceLast ==
    /\ Count(Sent, IsFinished) <= 1
    /\ \A i \in 1..Len(Sent) : IsFinished(Sent[i]) => i = Len(Sent)
    /\ (pc = "done" /\ ~rx_closed /\ exit \in {"sentinel", "eof"}) =>
          (Sent # <<>> /\ IsFinished(Last(Sent)))
    /\ (exit = "error") => Count(Sent, IsFinished) = 0

C1_Witness ==
    /\ pc = "done" /\ ~rx_closed /\ exit = "sentinel"
    /\ Len(Sent) >= 3
    /\ IsFinished(Last(Sent))

\* C2: with the consumer attached, a finished run has sent exactly one
\* terminal signal (a finished chunk or a failure result); no state has two,
\* and nothing follows the terminal signal.
C2_OneTerminalSignal ==
    /\ Count(Sent, IsTerminal) <= 1
    /\ \A i \in 1..Len(Sent) : IsTerminal(Sent[i]) => i = Len(Sent)
    /\ (pc = "done" /\ ~rx_closed) =>
          /\ exit \in {"sentinel", "eof", "error"}
          /\ Count(Sent, IsTerminal) = 1
          /\ exit = "error" <=> IsFailure(Last(Sent))

C2_Witness ==
    /\ pc = "done" /\ ~rx_closed /\ exit = "error"
    /\ Len(Sent) >= 2
    /\ IsFailure(Last(Sent))

\* C3: when the transport ends without a completion marker, the chunk sent is
\* {content empty, finished=true, tool_calls, usage}, the chunk the completion
\* marker produces from the same tool-call fragments and usage.
C3_EofChunkAsSentinel ==
    exit = "eof" =>
        LET sent == Last(sends) IN
        /\ sent.item = Ok(DoneFinalChunk(current_tool_calls, accumulated_usage))
        /\ sent.item.chunk[1].content = ""
        /\ sent.item.chunk[1].finished
        /\ ~rx_closed => (sent.ok /\ Last(Sent) = sent.item)

C3_Witness ==
    /\ exit = "eof" /\ ~rx_closed
    /\ Len(current_tool_calls) >= 2
    /\ accumulated_usage # None
    /\ Last(Sent).chunk[1].usage = accumulated_usage
    /\ Last(Sent).chunk[1].tool_calls # None
    /\ Len(Last(Sent).chunk[1].tool_calls[1]) >= 1

\* the items of a send history, accepted or not
Items(h) == [i \in 1..Len(h) |-> h[i].item]

\* C4: on a transport read error the producer sends one failure result, after
\* the chunks already sent, and returns: no line is decoded and no fragment
\* read between the error and the send, and nothing at all after it.
C4_TransportError ==
    [][ /\ pc = "error" =>
              /\ UNCHANGED <<pos, buffer, accepted, current_tool_calls,
                             accumulated_usage>>
              /\ sends' # sends =>
                    /\ sends' = Append(sends, [item |-> Err, ok |-> ~rx_closed])
                    /\ queue' = IF rx_closed THEN queue ELSE Append(queue, Err)
                    /\ pc' = "done"
                    /\ exit' = "error"
        /\ exit' = "error" =>
              /\ Count(Items(sends'), IsFailure) = 1
              /\ IsFailure(Last(sends').item)
        /\ exit = "error" => UNCHANGED producer
      ]_vars

C4_Witness ==
    /\ exit = "error" /\ ~rx_closed
    /\ queue = <<>>
    /\ Len(received) >= 3
    /\ IsFailure(Last(received))
    /\ \A i \in 1..(Len(received) - 1) : IsChunk(received[i])

\* C6: when the send of a content chunk fails because the consumer dropped the
\* receiving end, the producer returns at once: no tool call of the event is
\* merged, no further line decoded, no fragment read, and no send attempted
\* then or later.
C6_StopOnDisconnect ==
    [][ /\ ( /\ pc = "choices"
             /\ rx_closed
             /\ choice_idx <= Len(chunk_data[1].choices)
             /\ chunk_data[1].choices[choice_idx].delta.content # None
             /\ producer' # producer )
           => /\ pc' = "done"
              /\ exit' = "disconnect"
              /\ sends' = Append(sends,
                    [item |-> Ok(ContentChunk(
                                 chunk_data[1].choices[choice_idx].delta.content[1])),
                     ok |-> FALSE])
              /\ UNCHANGED <<pos, buffer, accepted, current_tool_calls,
                             accumulated_usage, queue>>
        /\ exit = "disconnect" => UNCHANGED producer
      ]_vars

C6_Witness ==
    /\ exit = "disconnect"
    /\ Len(Sent) >= 1
    /\ ~Last(sends).ok
    /\ FindNewline(buffer) > 0

\* ---- what a text decodes to, line by line

\* the complete lines of a text, trimmed, in order
RECURSIVE CompleteLines(_)
CompleteLines(text) ==
    LET line_end == FindNewline(text) IN
    IF line_end = 0 THEN <<>>
    ELSE <<LineOf(text, line_end)>> \o CompleteLines(Drain(text, line_end))

\* the events decoded from lines, up to the completion marker
RECURSIVE EventsOf(_)
EventsOf(lines) ==
    IF lines = <<>> THEN <<>>
    ELSE LET c == Classify(Head(lines)) IN
         IF c.kind = "done" THEN <<>>
         ELSE c.event \o EventsOf(Tail(lines))

HasDone(lines) == \E i \in 1..Len(lines) : Classify(lines[i]).kind = "done"

\* the content fragments of a sequence of choices / of events, in wire order
RECURSIVE ChoiceContents(_)
ChoiceContents(choices) ==
    IF choices = <<>> THEN <<>>
    ELSE Head(choices).delta.content \o ChoiceContents(Tail(choices))

RECURSIVE Contents(_)
Contents(events) ==
    IF events = <<>> THEN <<>>
    ELSE ChoiceContents(Head(events).choices) \o Contents(Tail(events))

\* the tool-call deltas of a sequence of choices / of events, in wire order
RECURSIVE ChoiceDeltas(_)
ChoiceDeltas(choices) ==
    IF choices = <<>> THEN <<>>
    ELSE (IF Head(choices).delta.tool_calls = None THEN <<>>
          ELSE Head(choices).delta.tool_calls[1]) \o ChoiceDeltas(Tail(choices))

RECURSIVE Deltas(_)
Deltas(events) ==
    IF events = <<>> THEN <<>>
    ELSE ChoiceDeltas(Head(events).choices) \o Deltas(Tail(events))

\* the usage snapshot of the last event that carries one
RECURSIVE LatestUsage(_)
LatestUsage(events) ==
    IF events = <<>> THEN None
    ELSE IF Last(events).usage # None THEN Last(events).usage
    ELSE LatestUsage(SubSeq(events, 1, Len(events) - 1))

\* the items sent to an attached consumer, with unbounded queue, when `bytes`
\* arrive as a single fragment and the transport then ends as `ending`
SingleFragmentRun(bytes, ending) ==
    LET lines == IF ValidUtf8(bytes) THEN CompleteLines(bytes) ELSE <<>>
        events == EventsOf(lines)
        contents == Contents(events)
        final == Ok(DoneFinalChunk(MergeDeltas(<<>>, Deltas(events)),
                                   LatestUsage(events)))
    IN [i \in 1..Len(contents) |-> Ok(ContentChunk(contents[i]))]
       \o (IF HasDone(lines) \/ ending = "eof" THEN <<final>> ELSE <<Err>>)

\* the bytes the transport has handed over
Consumed == SubSeq(stream, 1, pos)

\* C5 as stated: however the bytes were cut into fragments, a finished run
\* with the consumer attached has sent the items the same bytes produce when
\* they arrive as a single fragment.
C5_SplitInvariance ==
    (pc = "done" /\ ~rx_closed) =>
        Sent = SingleFragmentRun(Consumed, IF exit = "error" THEN "error" ELSE "eof")

\* the same, for runs in which every fragment was valid UTF-8 by itself
C5_SplitInvarianceOfValidFragments ==
    (pc = "done" /\ ~rx_closed /\ accepted = Consumed) =>
        Sent = SingleFragmentRun(Consumed, IF exit = "error" THEN "error" ELSE "eof")

\* the text whose lines the producer has taken out of the buffer
Handled == SubSeq(accepted, 1, Len(accepted) - Len(buffer))

\* the events decoded from those lines
HandledEvents == EventsOf(CompleteLines(Handled))

\* the producer is between events and has not returned on a failed send
BetweenEvents == pc # "choices" /\ exit # "disconnect"

IsPrefix(s, t) == Len(s) <= Len(t) /\ s = SubSeq(t, 1, Len(s))

\* the chunks sent that are not the final one
RECURSIVE Intermediate(_)
Intermediate(items) ==
    IF items = <<>> THEN <<>>
    ELSE (IF IsTerminal(Head(items)) THEN <<>> ELSE <<Head(items)>>)
         \o Intermediate(Tail(items))

\* C7: the chunks {content, finished=false} sent are, one for one and in
\* order, the content fragments of the decoded events, and the consumer takes
\* them in the order sent: what it has received, followed by what is queued,
\* is what was sent.
C7_OrderedDelivery ==
    /\ IsPrefix(received, Sent)
    /\ ~rx_closed => received \o queue = Sent
    /\ (~rx_closed /\ BetweenEvents) =>
          LET contents == Contents(HandledEvents) IN
          Intermediate(Sent) =
              [i \in 1..Len(contents) |->
                 [tag |-> "Ok",
                  chunk |-> <<[content |-> contents[i], finished |-> FALSE,
                               tool_calls |-> None, usage |-> None]>>]]

C7_Witness ==
    /\ pc = "done" /\ ~rx_closed /\ queue = <<>>
    /\ Len(received) >= 4
    /\ Len(Intermediate(received)) >= 3
    /\ received[1] # received[2]
    /\ received[2] # received[3]

\* C8: between events the stored usage is the snapshot of the latest decoded
\* event that carried one (none if there was none), and the final chunk
\* reports that snapshot.
C8_UsageLastWins ==
    /\ BetweenEvents => accumulated_usage = LatestUsage(HandledEvents)
    /\ exit \in {"sentinel", "eof"} =>
          Last(sends).item.chunk[1].usage = LatestUsage(HandledEvents)

C8_Witness ==
    /\ exit = "eof" /\ ~rx_closed
    /\ Len(HandledEvents) = 2
    /\ HandledEvents[1].usage = Some(Usage1)
    /\ HandledEvents[2].usage = Some(Usage2)
    /\ Last(Sent).chunk[1].usage = Some(Usage2)

\* ---- what the deltas addressed to one position say

AtPosition(ds, p) == SelectSeq(ds, LAMBDA d : d.index = Some(p))

Indexed(ds) == SelectSeq(ds, LAMBDA d : d.index # None)

RECURSIVE LatestId(_)
LatestId(ds) ==
    IF ds = <<>> THEN None
    ELSE IF Last(ds).id # None THEN Last(ds).id
    ELSE LatestId(SubSeq(ds, 1, Len(ds) - 1))

RECURSIVE LatestName(_)
LatestName(ds) ==
    IF ds = <<>> THEN None
    ELSE IF Last(ds).function # None /\ Last(ds).function[1].name # None
         THEN Last(ds).function[1].name
    ELSE LatestName(SubSeq(ds, 1, Len(ds) - 1))

RECURSIVE ArgumentText(_)
ArgumentText(ds) ==
    IF ds = <<>> THEN <<>>
    ELSE (IF Head(ds).function # None /\ Head(ds).function[1].arguments # None
          THEN Head(ds).function[1].arguments[1] ELSE <<>>)
         \o ArgumentText(Tail(ds))

ArgumentValue(text) ==
    IF ParseArguments(text) = None THEN JsonNull ELSE ParseArguments(text)[1]

\* deltas for position 1 came first, deltas for position 0 later, and each of
\* the two positions was given an id and a name
OneThenZero(ds) ==
    /\ Indexed(ds) # <<>>
    /\ Indexed(ds)[1].index = Some(1)
    /\ AtPosition(ds, 0) # <<>>
    /\ \A p \in {0, 1} : /\ LatestId(AtPosition(ds, p)) # None
                         /\ LatestName(AtPosition(ds, p)) # None

\* C9: when deltas for position 1 arrive before those for position 0, the
\* final chunk lists at least two tool calls and the first has the id, the
\* name and the arguments of the deltas for position 0.
C9_OutOfOrderMerge ==
    (exit \in {"sentinel", "eof"} /\ OneThenZero(Deltas(HandledEvents))) =>
        LET zero == AtPosition(Deltas(HandledEvents), 0)
            tool_calls == Last(sends).item.chunk[1].tool_calls
        IN /\ tool_calls # None
           /\ Len(tool_calls[1]) >= 2
           /\ tool_calls[1][1] = [id |-> LatestId(zero)[1],
                                  tool |-> LatestName(zero)[1],
                                  args |-> ArgumentValue(ArgumentText(zero))]

C9_Witness ==
    /\ exit = "eof" /\ ~rx_closed
    /\ OneThenZero(Deltas(HandledEvents))
    /\ Len(HandledEvents) = 2
    /\ Last(Sent).chunk[1].tool_calls[1][1].id = "call_1"
    /\ Last(Sent).chunk[1].tool_calls[1][2].id = "call_2"

\* a fragment with both an id and a name
IsComplete(tc) == tc.id # None /\ tc.name # None

\* C10: the final chunk lists exactly the fragments that have both an id and
\* a name, in increasing position; the others are left out, and no failure
\* result is sent for them.
C10_FinalizeCompleteOnly ==
    (exit \in {"sentinel", "eof"} /\ current_tool_calls # <<>>) =>
        LET survivors == SelectSeq(current_tool_calls, IsComplete)
            tool_calls == Last(sends).item.chunk[1].tool_calls
        IN /\ tool_calls # None
           /\ Len(tool_calls[1]) = Len(survivors)
           /\ \A k \in 1..Len(survivors) :
                 /\ tool_calls[1][k].id = survivors[k].id[1]
                 /\ tool_calls[1][k].tool = survivors[k].name[1]
           /\ Count(Items(sends), IsFailure) = 0

C10_Witness ==
    /\ exit = "eof" /\ ~rx_closed
    /\ \E i \in 1..Len(current_tool_calls) :
          current_tool_calls[i].id = None /\ current_tool_calls[i].name # None
    /\ \E i \in 1..Len(current_tool_calls) :
          current_tool_calls[i].id = None /\ current_tool_calls[i].name = None
    /\ Len(Last(Sent).chunk[1].tool_calls[1]) = 1

\* C11: a fragment with an id and a name whose argument text is no JSON value
\* (the empty text included) is in the final chunk, at its place among the
\* complete fragments, with null arguments; no failure result is sent.
C11_BadArgumentsAreNull ==
    (exit \in {"sentinel", "eof"}) =>
        /\ Count(Items(sends), IsFailure) = 0
        /\ \A i \in 1..Len(current_tool_calls) :
              LET tc == current_tool_calls[i]
                  k == Len(SelectSeq(SubSeq(current_tool_calls, 1, i), IsComplete))
                  tool_calls == Last(sends).item.chunk[1].tool_calls
              IN (IsComplete(tc) /\ ParseArguments(tc.arguments) = None) =>
                    /\ tool_calls # None
                    /\ Len(tool_calls[1]) >= k
                    /\ tool_calls[1][k] = [id |-> tc.id[1], tool |-> tc.name[1],
                                           args |-> [t |-> "null", v |-> {}]]

C11_Witness ==
    /\ exit = "eof" /\ ~rx_closed
    /\ Len(current_tool_calls) = 2
    /\ IsComplete(current_tool_calls[1])
    /\ current_tool_calls[1].arguments = <<"{", "K">>
    /\ IsComplete(current_tool_calls[2])
    /\ current_tool_calls[2].arguments = <<>>
    /\ Len(Last(Sent).chunk[1].tool_calls[1]) = 2
    /\ Last(Sent).chunk[1].tool_calls[1][2].args.t = "null"

\* a line that is empty, has no "data: " prefix, or whose payload is neither
\* the completion marker nor a delta event
IsNoise(line) ==
    \/ line = <<>>
    \/ StripPrefix(line) = None
    \/ /\ StripPrefix(line) # None
       /\ StripPrefix(line)[1] # <<"[DONE]">>
       /\ FromStr(StripPrefix(line)[1]) = None

\* the chunk {content, finished=false} of each content fragment
PlainChunks(contents) ==
    [i \in 1..Len(contents) |->
       [tag |-> "Ok",
        chunk |-> <<[content |-> contents[i], finished |-> FALSE,
                     tool_calls |-> None, usage |-> None]>>]]

\* C12: the producer passes over a noise line without sending anything or
\* touching the tool-call fragments and the usage, and goes on with the next
\* line; the chunks sent and the usage stored stay those of the lines that do
\* decode, the ones after a noise line included.
C12_NoiseLinesSkipped ==
    /\ [][ ( /\ pc = "lines"
             /\ FindNewline(buffer) > 0
             /\ IsNoise(LineOf(buffer, FindNewline(buffer)))
             /\ producer' # producer )
           => /\ pc' = "lines"
              /\ buffer' = Drain(buffer, FindNewline(buffer))
              /\ UNCHANGED <<sends, queue, current_tool_calls, accumulated_usage,
                             exit, returned, pos, accepted>>
         ]_vars
    /\ []( (BetweenEvents /\ ~rx_closed) =>
              /\ Intermediate(Sent) = PlainChunks(Contents(HandledEvents))
              /\ accumulated_usage = LatestUsage(HandledEvents) )

C12_Witness ==
    LET lines == CompleteLines(Handled) IN
    /\ ~rx_closed
    /\ Len(lines) = 2
    /\ StripPrefix(lines[1]) # None
    /\ IsNoise(lines[1])
    /\ ~IsNoise(lines[2])
    /\ BetweenEvents
    /\ Len(Sent) >= 1
    /\ IsChunk(Sent[1]) /\ Sent[1].chunk[1].content = "Hel"

\* C13: a fragment that is not valid UTF-8 is dropped whole: the line buffer,
\* the tool-call fragments, the usage and the output are as before it, and the
\* producer reads the next fragment, which, when valid, is appended to the
\* buffer and scanned for lines.
C13_InvalidFragmentDropped ==
    [][ (pc = "next" /\ pos' > pos) =>
           LET chunk == SubSeq(stream, pos + 1, pos') IN
           /\ UNCHANGED <<sends, queue, current_tool_calls, accumulated_usage,
                          exit, returned>>
           /\ IF \E i \in 1..Len(chunk) :
                    \/ chunk[i] = "FF"
                    \/ chunk[i] = "C3" /\ (i = Len(chunk) \/ chunk[i + 1] # "A9")
                    \/ chunk[i] = "A9" /\ (i = 1 \/ chunk[i - 1] # "C3")
              THEN buffer' = buffer /\ accepted' = accepted /\ pc' = "next"
              ELSE buffer' = buffer \o chunk /\ pc' = "lines"
      ]_vars

C13_Witness ==
    /\ ~rx_closed
    /\ pos = Len(stream)
    /\ pos = 10
    /\ stream[3] = "FF"
    /\ accepted = SubSeq(stream, 4, 10)
    /\ Len(Sent) >= 1
    /\ IsChunk(Sent[1]) /\ Sent[1].chunk[1].content = "Hel"

\* the six lines of the scenario: content "Hel", content "lo", two tool-call
\* deltas for position 0, a usage event whose one choice is {}, the marker
ScenarioStream ==
    DataLine("hel") \o DataLine("lo") \o DataLine("t0") \o DataLine("t0b")
        \o DataLine("noc") \o DoneLine

InitScenario == InitWith({ScenarioStream})

SpecScenario == InitScenario /\ [][Next]_vars

ScenarioToolCall ==
    [id |-> "call_1", tool |-> "get_weather",
     args |-> [t |-> "object", v |-> {<<"location", "Tokyo">>}]]

ScenarioOutput(usage) ==
    << [tag |-> "Ok",
        chunk |-> <<[content |-> "Hel", finished |-> FALSE,
                     tool_calls |-> None, usage |-> None]>>],
       [tag |-> "Ok",
        chunk |-> <<[content |-> "lo", finished |-> FALSE,
                     tool_calls |-> None, usage |-> None]>>],
       [tag |-> "Ok",
        chunk |-> <<[content |-> "", finished |-> TRUE,
                     tool_calls |-> Some(<<ScenarioToolCall>>),
                     usage |-> usage]>>] >>

\* C14 as stated: when the producer has reached the marker of the scenario's
\* input, its output is chunk "Hel", chunk "lo" and a terminal chunk with the
\* tool call {call_1, get_weather, {location: Tokyo}} and usage {10,5,15}.
C14_Original ==
    (exit = "sentinel") => Items(sends) = ScenarioOutput(Some(Usage3))

\* C14: when the producer has reached the marker of the scenario's input, its
\* output is chunk "Hel", chunk "lo" and a terminal chunk with the tool call
\* {call_1, get_weather, {location: Tokyo}} and no usage: the usage event is
\* not a delta event, its one choice having no delta, and is skipped whole.
C14_ScenarioWithoutUsage ==
    (exit = "sentinel") =>
        /\ Items(sends) = ScenarioOutput(None)
        /\ returned = Some(None)

C14_Witness ==
    /\ exit = "sentinel"
    /\ pos = Len(ScenarioStream)
    /\ received = ScenarioOutput(None)

\* a response of more chunks than the channel holds: two events of ManyChoices
\* content choices each, then the marker
FullStream == DataLine("many") \o DataLine("many") \o DoneLine

InitFull == InitWith({FullStream})

SpecFull == InitFull /\ [][Next]_vars

\* the producer's next step is a tx.send
AtSend ==
    \/ pc \in {"sentinel", "error", "eof"}
    \/ /\ pc = "choices"
       /\ choice_idx <= Len(chunk_data[1].choices)
       /\ chunk_data[1].choices[choice_idx].delta.content # None

\* C15: the channel never holds more than 100 items, and while it holds 100
\* and the consumer is attached, a producer that is at a send makes no step
\* (no send completes, nothing is read or decoded): the only steps are the
\* consumer taking an item or disconnecting.
C15_BoundedQueue ==
    /\ [](Len(queue) <= 100)
    /\ [][ (Len(queue) = 100 /\ ~rx_closed /\ AtSend) =>
              /\ UNCHANGED producer
              /\ \/ Len(queue') = 99 /\ received' = Append(received, Head(queue))
                 \/ rx_closed'
         ]_vars

C15_Witness ==
    /\ Len(queue) = 100
    /\ ~rx_closed
    /\ AtSend
    /\ pc = "choices"
    /\ Len(sends) = 100 + Len(received)
    /\ Len(received) >= 1

\* C16: decoding the line "data: [DONE]" takes the producer to the final send;
\* that send carries {content "", finished, the finalized tool calls, the
\* stored usage} and ends the producer; from then on the producer makes no
\* step: the rest of the buffer and of the transport stream stays as it is and
\* nothing more is sent.
C16_SentinelIsTerminal ==
    [][ /\ ( /\ pc = "lines"
             /\ FindNewline(buffer) > 0
             /\ StripPrefix(LineOf(buffer, FindNewline(buffer))) = Some(<<"[DONE]">>)
             /\ producer' # producer )
           => pc' = "sentinel" /\ sends' = sends /\ exit' = "running"
        /\ (pc = "sentinel" /\ producer' # producer) =>
              /\ sends' = Append(sends,
                    [item |-> [tag |-> "Ok",
                               chunk |-> <<[content |-> "", finished |-> TRUE,
                                            tool_calls |->
                                               IF current_tool_calls = <<>> THEN None
                                               ELSE Some(FilterMapToToolCall(current_tool_calls)),
                                            usage |-> accumulated_usage]>>],
                     ok |-> ~rx_closed])
              /\ pc' = "done" /\ exit' = "sentinel"
              /\ pos' = pos /\ buffer' = buffer
        /\ (exit = "sentinel") => UNCHANGED producer
      ]_vars

C16_Witness ==
    /\ exit = "sentinel"
    /\ pc = "done"
    /\ FindNewline(buffer) > 0
    /\ IsFinished(Last(sends).item)
    /\ received # <<>> /\ Last(received) = Last(sends).item

\* C17: the task has returned exactly when it has left through one of its four
\* exits, and the value it returned is the usage stored then: the latest usage
\* among the events handled, where the event whose content send found the
\* consumer gone had not yet got to its usage.
C17_ReturnedUsage ==
    /\ pc # "done" => returned = None
    /\ pc = "done" =>
          /\ exit \in {"sentinel", "eof", "error", "disconnect"}
          /\ returned = Some(accumulated_usage)
          /\ exit # "disconnect" => returned = Some(LatestUsage(HandledEvents))
          /\ exit = "disconnect" =>
                returned = Some(LatestUsage(SubSeq(HandledEvents, 1,
                                                   Len(HandledEvents) - 1)))

C17_Witness ==
    /\ pc = "done"
    /\ exit = "disconnect"
    /\ Len(HandledEvents) = 2
    /\ HandledEvents[2].usage = Some(Usage1)
    /\ returned = Some(Some(Usage2))

\* the tool-call deltas merged so far, in arrival order: those of the events
\* handled, and of the event in hand those of the choices already passed
HandledDeltas ==
    IF chunk_data # None
    THEN Deltas(SubSeq(HandledEvents, 1, Len(HandledEvents) - 1))
            \o ChoiceDeltas(SubSeq(chunk_data[1].choices, 1, choice_idx - 1))
    ELSE Deltas(HandledEvents)

\* the positions the deltas ds were addressed to
Positions(ds) == {ds[i].index[1] : i \in {j \in 1..Len(ds) : ds[j].index # None}}

\* C18: the fragment collection has one fragment for each position from 0 to
\* the highest position a merged delta was addressed to, and none beyond; a
\* position no delta was addressed to holds the empty fragment (no id, no
\* name, empty arguments); and no step makes the collection shorter.
C18_DenseCollection ==
    /\ [](LET seen == Positions(HandledDeltas) IN
          /\ seen = {} => current_tool_calls = <<>>
          /\ seen # {} =>
                /\ \E p \in seen :
                      /\ \A q \in seen : q <= p
                      /\ Len(current_tool_calls) = p + 1
                /\ \A p \in 0..(Len(current_tool_calls) - 1) :
                      p \notin seen =>
                         current_tool_calls[p + 1] =
                            [id |-> None, name |-> None, arguments |-> <<>>])
    /\ [][Len(current_tool_calls') >= Len(current_tool_calls)]_vars

C18_Witness ==
    /\ Len(HandledDeltas) = 2
    /\ HandledDeltas[1].index = Some(2)
    /\ HandledDeltas[2].index = Some(1)
    /\ Len(current_tool_calls) = 3
    /\ current_tool_calls[1] = [id |-> None, name |-> None, arguments |-> <<>>]
    /\ current_tool_calls[2].id # None
    /\ current_tool_calls[3].name = Some("lookup")

\* C19: at every moment, finalization included, the fragment at position p is
\* made of the deltas addressed to p alone: its arguments are their argument
\* texts concatenated in arrival order, its id and name the latest they gave;
\* the deltas addressed to other positions, wherever they fall in between,
\* leave no mark on it.
C19_ArgumentsPerPosition ==
    LET ds == HandledDeltas IN
    \A p \in 0..(Len(current_tool_calls) - 1) :
        LET mine == SelectSeq(ds, LAMBDA d : d.index # None /\ d.index[1] = p) IN
        /\ current_tool_calls[p + 1].arguments = ArgumentText(mine)
        /\ current_tool_calls[p + 1].id = LatestId(mine)
        /\ current_tool_calls[p + 1].name = LatestName(mine)

C19_Witness ==
    /\ exit = "eof"
    /\ Len(HandledDeltas) = 3
    /\ HandledDeltas[1].index = Some(0)
    /\ HandledDeltas[2].index = Some(1)
    /\ HandledDeltas[3].index = Some(0)
    /\ Len(current_tool_calls) = 2
    /\ current_tool_calls[1].arguments = <<"{", "K", "{", "K", "V", "}">>
    /\ current_tool_calls[2].arguments = <<"{", "}">>
    /\ current_tool_calls[2].id = Some("call_2")

\* the content fragments the producer has come to so far, in arrival order:
\* those of the events handled, and of the event in hand those of the choices
\* already passed, with the one whose send found the consumer gone
HandledContents ==
    IF chunk_data # None
    THEN Contents(SubSeq(HandledEvents, 1, Len(HandledEvents) - 1))
            \o ChoiceContents(SubSeq(chunk_data[1].choices, 1,
                                     IF exit = "disconnect" THEN choice_idx
                                     ELSE choice_idx - 1))
    ELSE Contents(HandledEvents)

\* C20: the chunks sent before the terminal one are one per content fragment
\* and no more, whatever tool-call deltas and usage snapshots were handled,
\* and carry neither tool calls nor usage; an item that carries tool calls or
\* usage is the finished chunk.
C20_OnlyContentCausesChunks ==
    LET items == Items(sends)
        contents == HandledContents
    IN /\ Len(SelectSeq(items, LAMBDA it : it.tag = "Ok" /\ ~it.chunk[1].finished))
             = Len(contents)
       /\ \A i \in 1..Len(items) :
             (items[i].tag = "Ok" /\ ~items[i].chunk[1].finished) =>
                 /\ items[i].chunk[1].tool_calls = None
                 /\ items[i].chunk[1].usage = None
                 /\ i <= Len(contents)
                 /\ items[i].chunk[1].content = contents[i]
       /\ \A i \in 1..Len(items) :
             (items[i].tag = "Ok" /\ (items[i].chunk[1].tool_calls # None
                                      \/ items[i].chunk[1].usage # None)) =>
                 /\ items[i].chunk[1].finished
                 /\ i = Len(items)

C20_Witness ==
    /\ exit = "eof"
    /\ Len(HandledDeltas) >= 1
    /\ Len(HandledEvents) = 2
    /\ HandledEvents[2].usage # None
    /\ HandledContents = <<>>
    /\ Len(sends) = 1
    /\ received = Items(sends)
    /\ received[1].chunk[1].finished
    /\ received[1].chunk[1].tool_calls # None
    /\ received[1].chunk[1].usage = Some(Usage2)

\* the steps of the spawned task: transport reads, line decoding, sends
ProducerStep ==
    \/ NextOk \/ NextErr \/ NextNone
    \/ ProcessLine
    \/ HandleChoice \/ HandleUsage
    \/ SendDone \/ SendErr \/ SendEof

\* the consumer polls the stream or drops it
ConsumerStep == Recv \/ DropReceiver

\* the runtime keeps scheduling the task while it can run, the transport
\* answers every read, and the consumer keeps receiving or disconnects
Fairness == WF_vars(ProducerStep) /\ WF_vars(ConsumerStep)

\* a response of more chunks than the channel has slots; the transport may end
\* it anywhere, by the marker, by closing or by a read error
LiveStreams == {FullStream}

InitLive == InitWith(LiveStreams)

SpecLive == InitLive /\ [][Next]_vars /\ Fairness

\* C21: the producer task terminates; in particular a producer at a send with
\* the channel full, and a producer at a send after the consumer has
\* disconnected, gets past the send and returns.
C21_ProducerTerminates ==
    /\ <>(pc = "done")
    /\ (AtSend /\ Len(queue) = capacity /\ ~rx_closed) ~> (pc = "done")
    /\ (AtSend /\ rx_closed) ~> (pc = "done")

C21_Witness ==
    /\ pc = "done"
    /\ exit = "disconnect"
    /\ rx_closed
    /\ Len(sends) = Len(received) + capacity + 1
    /\ ~Last(sends).ok

\* ---- two requests in flight

\* the state of the request whose task or consumer is being run
Snapshot ==
    [stream |-> stream, pos |-> pos, buffer |-> buffer,
     accumulated_usage |-> accumulated_usage,
     current_tool_calls |-> current_tool_calls, chunk_data |-> chunk_data,
     choice_idx |-> choice_idx, pc |-> pc, exit |-> exit, returned |-> returned,
     queue |-> queue, capacity |-> capacity, rx_closed |-> rx_closed,
     received |-> received, sends |-> sends, accepted |-> accepted]

\* a request as OpenRouterProvider::stream sets it up
Fresh(bytes) ==
    [stream |-> bytes, pos |-> 0, buffer |-> <<>>, accumulated_usage |-> None,
     current_tool_calls |-> <<>>, chunk_data |-> None, choice_idx |-> 0,
     pc |-> "next", exit |-> "running", returned |-> None, queue |-> <<>>,
     capacity |-> ChannelCapacity, rx_closed |-> FALSE, received |-> <<>>,
     sends |-> <<>>, accepted |-> <<>>]

\* mutant: the two tasks decode in one line buffer
SwitchSharingBuffer ==
    /\ parked # None
    /\ parked' = Some([id |-> 3 - parked[1].id, st |-> Snapshot])
    /\ stream' = parked[1].st.stream
    /\ pos' = parked[1].st.pos
    /\ buffer' = buffer
    /\ accumulated_usage' = parked[1].st.accumulated_usage
    /\ current_tool_calls' = parked[1].st.current_tool_calls
    /\ chunk_data' = parked[1].st.chunk_data
    /\ choice_idx' = parked[1].st.choice_idx
    /\ pc' = parked[1].st.pc
    /\ exit' = parked[1].st.exit
    /\ returned' = parked[1].st.returned
    /\ queue' = parked[1].st.queue
    /\ capacity' = parked[1].st.capacity
    /\ rx_closed' = parked[1].st.rx_closed
    /\ received' = parked[1].st.received
    /\ sends' = parked[1].st.sends
    /\ accepted' = parked[1].st.accepted

\* the scheduler turns from one request to the other; each request has its
\* own task, locals and channel, which stay as they are while the other runs
Switch ==
    /\ parked # None
    /\ parked' = Some([id |-> 3 - parked[1].id, st |-> Snapshot])
    /\ stream' = parked[1].st.stream
    /\ pos' = parked[1].st.pos
    /\ buffer' = parked[1].st.buffer
    /\ accumulated_usage' = parked[1].st.accumulated_usage
    /\ current_tool_calls' = parked[1].st.current_tool_calls
    /\ chunk_data' = parked[1].st.chunk_data
    /\ choice_idx' = parked[1].st.choice_idx
    /\ pc' = parked[1].st.pc
    /\ exit' = parked[1].st.exit
    /\ returned' = parked[1].st.returned
    /\ queue' = parked[1].st.queue
    /\ capacity' = parked[1].st.capacity
    /\ rx_closed' = parked[1].st.rx_closed
    /\ received' = parked[1].st.received
    /\ sends' = parked[1].st.sends
    /\ accepted' = parked[1].st.accepted

\* the responses of the two requests: contents "A", "B", a tool call and
\* usage {5,5,10} for the first, content "C", usage {7,7,14} and the marker
\* for the second
FirstStream == DataLine("two")

SecondStream == DataLine("cu") \o DoneLine

InitTwo ==
    /\ stream = FirstStream
    /\ pos = 0
    /\ buffer = <<>>
    /\ accumulated_usage = None
    /\ current_tool_calls = <<>>
    /\ chunk_data = None
    /\ choice_idx = 0
    /\ pc = "next"
    /\ exit = "running"
    /\ returned = None
    /\ queue = <<>>
    /\ capacity = ChannelCapacity
    /\ rx_closed = FALSE
    /\ received = <<>>
    /\ sends = <<>>
    /\ accepted = <<>>
    /\ parked = Some([id |-> 2, st |-> Fresh(SecondStream)])

NextTwo == Next \/ Switch

SpecTwo == InitTwo /\ [][NextTwo]_vars

\* the unfinished chunks among the items of a send history
ContentsSent(h) ==
    LET plain == SelectSeq(h, LAMBDA e : e.item.tag = "Ok" /\ ~e.item.chunk[1].finished)
    IN [i \in 1..Len(plain) |-> plain[i].item.chunk[1].content]

\* a request in state st is where it would be had it run alone on the
\* fragments its own transport has handed it
AsAlone(st) ==
    LET taken == SubSeq(st.stream, 1, st.pos)
        events == EventsOf(CompleteLines(taken))
        solo == SingleFragmentRun(taken, IF st.exit = "error" THEN "error" ELSE "eof")
    IN /\ st.accepted = taken
       /\ Len(st.buffer) <= Len(taken)
       /\ st.buffer = SubSeq(taken, Len(taken) - Len(st.buffer) + 1, Len(taken))
       /\ IsPrefix(ContentsSent(st.sends), Contents(events))
       /\ (st.pc \in {"next", "eof", "error"}) =>
             /\ st.accumulated_usage = LatestUsage(events)
             /\ st.current_tool_calls = MergeDeltas(<<>>, Deltas(events))
       /\ (st.pc = "done" /\ ~st.rx_closed) =>
             /\ OkItems(st.sends) = solo
             /\ st.received \o st.queue = solo
       /\ (st.pc = "done" /\ st.exit # "disconnect") =>
             st.returned = Some(LatestUsage(events))

\* C22: with two requests in flight and their steps interleaved in any way,
\* each request is at every moment where it would be had it run alone on the
\* fragments of its own transport: its buffer, tool-call fragments and usage
\* come from its own lines, and the items it delivers and the usage it returns
\* are those of a run of its own bytes alone.
C22_RequestsIndependent ==
    /\ parked # None
    /\ AsAlone(Snapshot)
    /\ AsAlone(parked[1].st)
    /\ stream = (IF parked[1].id = 2 THEN FirstStream ELSE SecondStream)
    /\ parked[1].st.stream = (IF parked[1].id = 2 THEN SecondStream ELSE FirstStream)

C22_Witness ==
    /\ parked # None
    /\ parked[1].id = 1
    /\ parked[1].st.pc = "choices"
    /\ parked[1].st.choice_idx = 2
    /\ Len(parked[1].st.sends) = 1
    /\ pc = "done" /\ exit = "eof"
    /\ Len(received) = 2
    /\ received[1].chunk[1].content = "C"
    /\ received[2].chunk[1].tool_calls = None
    /\ received[2].chunk[1].usage = Some(Usage2)

\* the tokens of text up to and including its last newline
UpToLastNewline(text) ==
    LET ends == {i \in 1..Len(text) : text[i] = "\n"} IN
    IF ends = {} THEN <<>>
    ELSE SubSeq(text, 1, CHOOSE i \in ends : \A j \in ends : j <= i)

\* C23: with no newline in the buffer the line loop decodes nothing and hands
\* over to the next read; and when the transport has ended, what was sent is
\* what the newline-terminated lines of the text received say, one chunk per
\* content fragment and the final chunk with their tool calls and usage: the
\* unterminated remainder is still in the buffer and has added nothing.
C23_UnterminatedLineDiscarded ==
    /\ [][ (pc = "lines" /\ (\A i \in 1..Len(buffer) : buffer[i] # "\n")
                         /\ producer' # producer) =>
              /\ pc' = "next"
              /\ UNCHANGED <<buffer, sends, queue, current_tool_calls,
                             accumulated_usage, exit, returned, pos>>
         ]_vars
    /\ []( (exit = "eof") =>
              LET whole == UpToLastNewline(accepted)
                  events == EventsOf(CompleteLines(whole))
                  contents == Contents(events)
                  tcs == MergeDeltas(<<>>, Deltas(events))
              IN /\ accepted = whole \o buffer
                 /\ \A i \in 1..Len(buffer) : buffer[i] # "\n"
                 /\ Len(sends) = Len(contents) + 1
                 /\ \A i \in 1..Len(contents) :
                       sends[i].item =
                          [tag |-> "Ok",
                           chunk |-> <<[content |-> contents[i], finished |-> FALSE,
                                        tool_calls |-> None, usage |-> None]>>]
                 /\ Last(sends).item =
                       [tag |-> "Ok",
                        chunk |-> <<[content |-> "", finished |-> TRUE,
                                     tool_calls |->
                                        IF tcs = <<>> THEN None
                                        ELSE Some(FilterMapToToolCall(tcs)),
                                     usage |-> LatestUsage(events)]>>]
                 /\ returned = Some(LatestUsage(events)) )

C23_Witness ==
    /\ exit = "eof"
    /\ ~rx_closed
    /\ pos = Len(stream) - 1
    /\ buffer = <<"data:", " ", "[DONE]">>
    /\ Len(sends) = 2
    /\ sends[1].item.chunk[1].content = "Hel"
    /\ sends[2].item.chunk[1].finished

\* C24: the final chunk has no tool-call list exactly when the fragment
\* collection is empty, which is when no delta with an index was merged; when
\* there are fragments and none has both an id and a name, the final chunk
\* has a tool-call list and the list is empty.
C24_ToolCallsAbsentIffNoFragments ==
    (exit \in {"sentinel", "eof"}) =>
        LET tool_calls == Last(sends).item.chunk[1].tool_calls
            indexed == SelectSeq(Deltas(HandledEvents), LAMBDA d : d.index # None)
        IN /\ (tool_calls = <<>>) <=> (Len(current_tool_calls) = 0)
           /\ (Len(current_tool_calls) = 0) <=> (Len(indexed) = 0)
           /\ ( /\ Len(current_tool_calls) > 0
                /\ \A i \in 1..Len(current_tool_calls) :
                      \/ current_tool_calls[i].id = <<>>
                      \/ current_tool_calls[i].name = <<>> )
              => (Len(tool_calls) = 1 /\ tool_calls[1] = <<>>)

C24_Witness ==
    /\ exit = "sentinel"
    /\ ~rx_closed
    /\ Len(current_tool_calls) = 3
    /\ current_tool_calls[3].name = Some("lookup")
    /\ received # <<>>
    /\ Last(received).chunk[1].finished
    /\ Last(received).chunk[1].tool_calls = <<<<>>>>

\* events with tool-call deltas that carry no index, next to deltas that do
NoIndexLines == {DataLine(d) : d \in {"nix", "noidx", "t0b", "t1i"}} \cup {DoneLine}

InitNoIndex == InitWith(StreamsOver(NoIndexLines, MaxLines))

SpecNoIndex == InitNoIndex /\ [][Next]_vars

\* C25: the fragment collection is what the deltas that carry an index make
\* it: as long as the highest position they name, each fragment with the id,
\* name and argument text of the deltas for its position; the deltas without
\* an index add nothing to it. The content of their events is sent and the
\* usage of their events is stored all the same.
C25_DeltaWithoutIndexIgnored ==
    LET ds == HandledDeltas
        indexed == SelectSeq(ds, LAMBDA d : d.index # <<>>)
        at(p) == SelectSeq(indexed, LAMBDA d : d.index[1] = p)
    IN /\ Len(indexed) = 0 => Len(current_tool_calls) = 0
       /\ Len(indexed) > 0 =>
             /\ \E i \in 1..Len(indexed) : Len(current_tool_calls) = indexed[i].index[1] + 1
             /\ \A i \in 1..Len(indexed) : Len(current_tool_calls) >= indexed[i].index[1] + 1
       /\ \A p \in 0..(Len(current_tool_calls) - 1) :
             /\ current_tool_calls[p + 1].id = LatestId(at(p))
             /\ current_tool_calls[p + 1].name = LatestName(at(p))
             /\ current_tool_calls[p + 1].arguments = ArgumentText(at(p))
       /\ ContentsSent(sends) = HandledContents
       /\ (pc # "choices" /\ exit # "disconnect") =>
             accumulated_usage = LatestUsage(HandledEvents)

C25_Witness ==
    /\ exit = "eof"
    /\ ~rx_closed
    /\ Len(HandledDeltas) = 2
    /\ HandledDeltas[1].index = <<>>
    /\ HandledDeltas[1].id = Some("call_9")
    /\ HandledDeltas[2].index = Some(0)
    /\ current_tool_calls =
          <<[id |-> Some("call_1"), name |-> Some("get_weather"),
             arguments |-> <<"{", "}">>]>>
    /\ ContentsSent(sends) = <<"D">>
    /\ accumulated_usage = Some(Usage2)

\* C26: when the task is about to read from the transport, the buffer has no
\* newline and is the text received after the last newline; the lines before
\* it have each been taken once and in order: the contents sent are theirs,
\* one for one, and the usage stored is their latest.
C26_NoNewlineBeforeRead ==
    (pc = "next") =>
        LET n == Len(accepted) - Len(buffer)
            lines == CompleteLines(SubSeq(accepted, 1, n))
            events == EventsOf(lines)
        IN /\ \A i \in 1..Len(buffer) : buffer[i] # "\n"
           /\ n >= 0
           /\ buffer = SubSeq(accepted, n + 1, Len(accepted))
           /\ n > 0 => accepted[n] = "\n"
           /\ ContentsSent(sends) = Contents(events)
           /\ accumulated_usage = LatestUsage(events)
           /\ exit = "running"

C26_Witness ==
    /\ pc = "next"
    /\ ~rx_closed
    /\ buffer = <<"data:", " ">>
    /\ Len(accepted) = 8
    /\ accepted[6] = "\n"
    /\ ContentsSent(sends) = <<"Hel">>

====
